---- MODULE Spec2Model ----
(***************************************************************************)
(* cabundle-operator: the reconciliation engine (Reconcile, converge,      *)
(* CleanUpConfigMaps) and the periodic trigger (Runner.Start).             *)
(*                                                                         *)
(* A file name or a ConfigMap name is a sequence of one-character strings, *)
(* so that reName is computed character by character as the code does.     *)
(* A ConfigMap is [labelled, data]: labelled says whether it carries       *)
(* app=cabundle-operator, data is its Data map (a function from keys).     *)
(* cluster is the target namespace: a function from the names of the      *)
(* ConfigMaps that exist to the ConfigMaps.                                *)
(***************************************************************************)
EXTENDS Integers, Sequences, FiniteSets, TLC

VARIABLES
    cluster,          \* target namespace: name -> ConfigMap
    upstream,         \* the listing the HTTP location publishes: Seq(PEMFile)
    cfg,              \* the configuration ConfigMap: "url" | "nokey" | "notfound"
    pc,               \* position of the Reconcile call
    bundles,          \* Reconcile's local: the fetched []PEMFile
    i,                \* Reconcile's loop index over bundles (1-based)
    existingBundles,  \* CleanUpConfigMaps' local map: name -> found
    visited,          \* keys of existingBundles the range loop has passed
    cur,              \* DeleteBundleConfigMap's argument
    result,           \* what Reconcile returned: "none" | "ok" | "err"
    calls,            \* history: the cluster writes issued by this cycle
    endedIn,          \* history: where this cycle returned
    failedAt,         \* history: index of the record whose create/update failed
    faults,           \* history: the API calls of this cycle that were made to fail
    atStart,          \* history: cluster when this cycle started
    prev,             \* history: summary of the previous cycle
    extOps,           \* operations the external actor may still do
    rpc,              \* position of Runner.Start
    tickC,            \* ticker.C holds a tick (capacity 1)
    nTicks,           \* ticks the ticker has produced
    ctxDone,          \* the Runner's context is cancelled
    chanCap,          \* capacity of eventCh
    eventCh,          \* events buffered in eventCh
    chClosed,         \* eventCh is closed
    consumer,         \* the channel source reading eventCh: "recv" | "gone"
    delivered,        \* events the consumer has received
    sentAfterCancel,  \* history: a send on eventCh completed after cancellation
    recCancelled,     \* the context passed to Reconcile is cancelled
    fetchAfterCancel, \* history: the fetch returned after that cancellation
    nmIn,             \* a file name given to reName
    nmOut,            \* what reName made of it
    nmDone            \* reName has run

recVars == <<cluster, upstream, cfg, pc, bundles, i, existingBundles, visited,
             cur, result, calls, endedIn, failedAt, faults, atStart, prev, extOps>>
runVars == <<rpc, tickC, nTicks, ctxDone, chanCap, eventCh, chClosed, consumer,
             delivered, sentAfterCancel>>
ctxVars == <<recCancelled, fetchAfterCancel>>
normVars == <<nmIn, nmOut, nmDone>>
vars == <<recVars, runVars, ctxVars, normVars>>

(***************************************************************************)
(* Bounds of the model.                                                    *)
(***************************************************************************)
MaxBundles == 2     \* longest published listing
MaxExtOps == 2      \* operations of the external actor in one behaviour
MaxTicks == 3       \* ticks of the ticker in one behaviour
MaxChanCap == 1     \* largest capacity of eventCh
MaxNameParts == 3   \* parts a file name given to reName is put together from

(***************************************************************************)
(* Strings.                                                                *)
(***************************************************************************)
Range(s) == {s[k] : k \in 1..Len(s)}

LowerCase == <<"a","b","c","d","e","f","g","h","i","j","k","l","m",
               "n","o","p","q","r","s","t","u","v","w","x","y","z">>
UpperCase == <<"A","B","C","D","E","F","G","H","I","J","K","L","M",
               "N","O","P","Q","R","S","T","U","V","W","X","Y","Z">>
Digits == <<"0","1","2","3","4","5","6","7","8","9">>

\* the class [a-zA-Z0-9] of reName's regular expression
IsAlnum(c) == c \in Range(LowerCase) \cup Range(UpperCase) \cup Range(Digits)

\* strings.ToLower on one character
ToLowerChar(c) ==
    IF c \in Range(UpperCase)
    THEN LowerCase[CHOOSE k \in 1..Len(UpperCase) : UpperCase[k] = c]
    ELSE c

\* strings.TrimSuffix
TrimSuffix(s, suffix) ==
    IF Len(s) >= Len(suffix)
       /\ SubSeq(s, Len(s) - Len(suffix) + 1, Len(s)) = suffix
    THEN SubSeq(s, 1, Len(s) - Len(suffix))
    ELSE s

\* strings.HasSuffix
HasSuffix(s, suffix) ==
    /\ Len(s) >= Len(suffix)
    /\ SubSeq(s, Len(s) - Len(suffix) + 1, Len(s)) = suffix

DotPem == <<".", "p", "e", "m">>
DotCrt == <<".", "c", "r", "t">>
CAKey == <<"c", "a", ".", "c", "r", "t">>

\* re.ReplaceAllString(s, "-") with re = [^a-zA-Z0-9]: every single
\* character outside the class becomes one "-"
ReplaceNonAlnum(s) == [k \in 1..Len(s) |-> IF IsAlnum(s[k]) THEN s[k] ELSE "-"]

ToLower(s) == [k \in 1..Len(s) |-> ToLowerChar(s[k])]

reName(name) ==
    ToLower(ReplaceNonAlnum(TrimSuffix(TrimSuffix(name, DotPem), DotCrt)))

(***************************************************************************)
(* The inputs: published files, and the ConfigMaps an administrator or     *)
(* another controller may have put in the target namespace.                *)
(***************************************************************************)
APem == <<"a", ".", "p", "e", "m">>
ACrt == <<"A", ".", "c", "r", "t">>
BCrt == <<"b", ".", "c", "r", "t">>
FileNames == {APem, ACrt, BCrt}
Contents == {"AAA", "BBB"}

\* the listing keeps only hrefs that end in .pem or .crt
IsBundleName(name) == HasSuffix(name, DotPem) \/ HasSuffix(name, DotCrt)

PEMFile == [Filename : {f \in FileNames : IsBundleName(f)}, Content : Contents]

\* listings: sequences of files with pairwise different file names
Listings ==
    UNION {{s \in [1..n -> PEMFile] :
               \A x, y \in 1..n : x # y => s[x].Filename # s[y].Filename}
           : n \in 0..MaxBundles}

StaleNames == {<<"c">>}
CMNames == {reName(f) : f \in FileNames} \cup StaleNames

\* Data maps
DataOf(key, content) == [k \in {key} |-> content]
\* Data with one key set (and the others kept)
SetKey(data, key, content) ==
    [k \in DOMAIN data \cup {key} |-> IF k = key THEN content ELSE data[k]]

\* ConfigMaps found in the namespace before the operator acts: owned ones
\* with a ca.crt payload, and one with a ca.crt payload that does not carry
\* the ownership label.
InitConfigMaps ==
    {[labelled |-> TRUE, data |-> DataOf(CAKey, c)] : c \in Contents}
    \cup {[labelled |-> FALSE, data |-> DataOf(CAKey, "AAA")]}

\* what kubectl create configmap a --from-file=a.pem makes: no label, the
\* payload under the file's own name; and the same ConfigMap after an
\* earlier cycle's Update put a ca.crt payload next to it
FromFileConfigMaps ==
    {[labelled |-> FALSE, data |-> DataOf(APem, "AAA")],
     [labelled |-> FALSE, data |-> SetKey(DataOf(APem, "AAA"), CAKey, "BBB")]}

ConfigMapsNamed(n) ==
    InitConfigMaps \cup (IF n = reName(APem) THEN FromFileConfigMaps ELSE {})

Clusters ==
    UNION {{cl \in [S -> InitConfigMaps \cup FromFileConfigMaps] :
               \A n \in S : cl[n] \in ConfigMapsNamed(n)}
           : S \in SUBSET CMNames}

\* the names of the ConfigMaps a label-filtered List returns
Owned(cl) == {n \in DOMAIN cl : cl[n].labelled}

Remove(cl, name) == [n \in DOMAIN cl \ {name} |-> cl[n]]
Put(cl, name, cm) == [n \in DOMAIN cl \cup {name} |-> IF n = name THEN cm ELSE cl[n]]

NoPrev == [ran |-> FALSE, converged |-> FALSE, bundles |-> <<>>, result |-> "none"]

(***************************************************************************)
(* The Reconciler.                                                         *)
(***************************************************************************)
Call(op, name, idx, content, ok, owned) ==
    [op |-> op, name |-> name, idx |-> idx, content |-> content, ok |-> ok,
     owned |-> owned]

\* a download loop that stops at the failed file and returns what it has
DownloadFailedKeepsResults(results) == [files |-> results, err |-> FALSE]

\* DownloadPEMBundles, lines 73-76 and 78-82: a failed GET or a failed read
\* of the body returns nil and the error, whatever is in results
DownloadFailed(results) == [files |-> <<>>, err |-> TRUE]

\* DownloadPEMBundles, lines 65-90: the loop over the listed files from the
\* k-th on, with the records appended so far
RECURSIVE DownloadFrom(_, _, _, _)
DownloadFrom(listing, failAt, k, results) ==
    IF k > Len(listing)
    THEN [files |-> results, err |-> FALSE]
    ELSE IF failAt = k
    THEN DownloadFailed(results)
    ELSE DownloadFrom(listing, failAt, k + 1, Append(results, listing[k]))

\* DownloadPEMBundles: failAt = 0 is a failed listing request (transport
\* error, status other than 200, or a listing that does not parse), failAt
\* = k a failed download of the k-th file, anything larger no failure.
DownloadPEMBundles(listing, failAt) ==
    IF failAt = 0
    THEN [files |-> <<>>, err |-> TRUE]
    ELSE DownloadFrom(listing, failAt, 1, <<>>)

\* a fetch whose error is dropped: the cycle goes on with what it got
FetchOutcomeIgnoringError(listing, failAt) ==
    [files |-> DownloadPEMBundles(listing, failAt).files, err |-> FALSE]

\* Reconcile, lines 75-78: what the cycle does with the fetch's outcome
FetchOutcome(listing, failAt) == DownloadPEMBundles(listing, failAt)

\* checkConfigMap: getErr is a failed Get
checkConfigMap(cl, bundle, getErr) ==
    LET cmName == reName(bundle.Filename) IN
    IF getErr \/ cmName \notin DOMAIN cl
    THEN FALSE
    ELSE /\ bundle.Filename \in DOMAIN cl[cmName].data
         /\ cl[cmName].data[bundle.Filename] = bundle.Content

\* an update that writes the object a Create would write
UpdatedAsCreated(cm, content) ==
    [labelled |-> TRUE, data |-> DataOf(CAKey, content)]

\* createOrUpdateConfigMap, lines 135-139: the object sent by Update is the
\* one the Get returned with Data[CAKey] set (Data made if nil); its labels
\* and its other keys are as they were
UpdatedConfigMap(cm, content) ==
    [labelled |-> cm.labelled, data |-> SetKey(cm.data, CAKey, content)]

\* createOrUpdateConfigMap: fault is "none", "get" (the Get fails with an
\* error other than not-found) or "write" (the Create or Update fails).
\* Gives the cluster afterwards, the error, and the writes issued.
createOrUpdateConfigMap(cl, bundle, idx, fault) ==
    LET cmName == reName(bundle.Filename) IN
    IF fault = "get"
    THEN [cluster |-> cl, err |-> TRUE, calls |-> <<>>]
    ELSE IF cmName \notin DOMAIN cl
    THEN [cluster |-> IF fault = "write" THEN cl
                      ELSE Put(cl, cmName,
                               [labelled |-> TRUE,
                                data |-> DataOf(CAKey, bundle.Content)]),
          err |-> fault = "write",
          calls |-> <<Call("Create", cmName, idx, bundle.Content,
                           fault # "write", TRUE)>>]
    ELSE [cluster |-> IF fault = "write" THEN cl
                      ELSE Put(cl, cmName,
                               UpdatedConfigMap(cl[cmName], bundle.Content)),
          err |-> fault = "write",
          calls |-> <<Call("Update", cmName, idx, bundle.Content,
                           fault # "write", cl[cmName].labelled)>>]

\* where Reconcile goes once record j-1 is dealt with
AfterRecord(j) == IF j > Len(bundles) THEN "cleanup" ELSE "converge"

\* a loop that goes on to the next record after a failed create/update
AfterApplyKeepGoing(err, j) == AfterRecord(j)

\* a loop that breaks on a failed create/update and lets Reconcile go on
AfterApplyBreak(err, j) == IF err THEN "cleanup" ELSE AfterRecord(j)

\* Reconcile, lines 87-90: a failed create/update returns from Reconcile
AfterApply(err, j) == IF err THEN "done" ELSE AfterRecord(j)

\* a sweep that looks the listed names up in an empty set of bundles
ExistingBundlesOfNothing(names, files) == [n \in names |-> FALSE]

\* CleanUpConfigMaps, lines 185-194: the map from the listed names to
\* whether a fetched bundle is named so
ExistingBundles(names, files) ==
    [n \in names |-> \E k \in 1..Len(files) : reName(files[k].Filename) = n]

\* the keys of the map the range loop still has to delete
Stale == {n \in DOMAIN existingBundles : ~existingBundles[n]}

\* CleanUpConfigMaps, lines 199-202: a failed delete returns from the sweep
AfterDelete(err) == IF err THEN "done" ELSE "sweep"

\* the Reconciler before its first cycle
ReconcilerInit(clusters, listings, cfgs, ext) ==
    /\ cluster \in clusters
    /\ upstream \in listings
    /\ cfg \in cfgs
    /\ pc = "idle"
    /\ bundles = <<>>
    /\ i = 1
    /\ existingBundles = <<>>
    /\ visited = {}
    /\ cur = <<>>
    /\ result = "none"
    /\ calls = <<>>
    /\ endedIn = "none"
    /\ failedAt = 0
    /\ faults = {}
    /\ atStart = cluster
    /\ prev = NoPrev
    /\ extOps = ext
    /\ recCancelled = FALSE
    /\ fetchAfterCancel = FALSE

\* reName not in use
NormOff ==
    /\ nmIn = <<>>
    /\ nmOut = <<>>
    /\ nmDone = FALSE

\* the Runner not started
RunnerOff ==
    /\ rpc = "off"
    /\ tickC = FALSE
    /\ nTicks = 0
    /\ ctxDone = FALSE
    /\ chanCap = 0
    /\ eventCh = 0
    /\ chClosed = FALSE
    /\ consumer = "recv"
    /\ delivered = 0
    /\ sentAfterCancel = FALSE

Configs == {"url", "nokey", "notfound"}

Init == ReconcilerInit(Clusters, Listings, Configs, 0) /\ RunnerOff /\ NormOff

\* a cycle that reads a missing bundle_url as the empty URL and fetches
AfterConfigEmptyUrl(c, getErr) ==
    IF getErr
    THEN [pc |-> "done", result |-> "err", endedIn |-> "config"]
    ELSE IF c = "notfound"
    THEN [pc |-> "done", result |-> "ok", endedIn |-> "config"]
    ELSE [pc |-> "fetch", result |-> "none", endedIn |-> "none"]

\* Reconcile, lines 59-70: where the cycle goes once the configuration
\* ConfigMap is asked for. getErr is a Get that fails with an error other
\* than not-found; c says what the namespace holds: no such ConfigMap, one
\* without the bundle_url key, or one with it.
AfterConfig(c, getErr) ==
    IF getErr
    THEN [pc |-> "done", result |-> "err", endedIn |-> "config"]
    ELSE IF c = "notfound"
    THEN [pc |-> "done", result |-> "ok", endedIn |-> "config"]
    ELSE IF c = "nokey"
    THEN [pc |-> "done", result |-> "ok", endedIn |-> "config"]
    ELSE [pc |-> "fetch", result |-> "none", endedIn |-> "none"]

\* Reconcile, lines 54-70: read the configuration ConfigMap
Start ==
    /\ pc = "idle"
    /\ ~recCancelled
    /\ \E getErr \in BOOLEAN :
         LET o == AfterConfig(cfg, getErr) IN
         /\ faults' = IF getErr THEN {"config"} ELSE {}
         /\ pc' = o.pc
         /\ result' = o.result
         /\ endedIn' = o.endedIn
    /\ atStart' = cluster
    /\ calls' = <<>>
    /\ failedAt' = 0
    /\ bundles' = <<>>
    /\ i' = 1
    /\ existingBundles' = <<>>
    /\ visited' = {}
    /\ cur' = <<>>
    /\ UNCHANGED <<cluster, upstream, cfg, prev, extOps, runVars, ctxVars, normVars>>

\* Reconcile, lines 72-78: DownloadPEMBundles runs under httpCtx, which is
\* made from context.Background() with a timeout of five minutes and not
\* from the ctx passed to Reconcile, so its outcomes are the same whether
\* or not that ctx is cancelled
Fetch ==
    /\ pc = "fetch"
    /\ \E failAt \in 0..(Len(upstream) + 1) :
         LET r == FetchOutcome(upstream, failAt) IN
         /\ bundles' = r.files
         /\ IF r.err
            THEN pc' = "done" /\ result' = "err" /\ endedIn' = "fetch"
            ELSE pc' = AfterRecord(1)' /\ UNCHANGED <<result, endedIn>>
         /\ faults' = IF failAt = 0 THEN faults \cup {"fetch", "listing"}
                      ELSE IF failAt <= Len(upstream)
                      THEN faults \cup {"fetch", "download"}
                      ELSE faults
    /\ i' = 1
    /\ fetchAfterCancel' = recCancelled
    /\ UNCHANGED <<cluster, upstream, cfg, existingBundles, visited, cur, calls,
                   failedAt, atStart, prev, extOps, runVars, recCancelled,
                   normVars>>

\* what may go wrong in createOrUpdateConfigMap: a request sent under a
\* cancelled ctx fails, a read may still be answered from the client's cache
WriteFaults ==
    IF recCancelled THEN {"get", "write"} ELSE {"none", "get", "write"}

\* whether a Delete sent under ctx may fail
DeleteErrs == IF recCancelled THEN {TRUE} ELSE BOOLEAN

\* Reconcile, lines 80-91: one pass of the loop over bundles
ConvergeStep ==
    /\ pc = "converge"
    /\ i <= Len(bundles)
    /\ \E chkErr \in BOOLEAN, fault \in WriteFaults :
         IF checkConfigMap(cluster, bundles[i], chkErr)
         THEN /\ pc' = AfterRecord(i + 1)
              /\ i' = i + 1
              /\ faults' = faults
              /\ UNCHANGED <<cluster, calls, result, endedIn, failedAt>>
         ELSE LET r == createOrUpdateConfigMap(cluster, bundles[i], i, fault) IN
              /\ cluster' = r.cluster
              /\ calls' = calls \o r.calls
              /\ pc' = AfterApply(r.err, i + 1)
              /\ faults' = faults \cup (IF chkErr THEN {"check"} ELSE {})
                                  \cup (IF fault # "none" THEN {fault} ELSE {})
              /\ IF pc' = "done"
                 THEN result' = "err" /\ endedIn' = "converge" /\ i' = i
                 ELSE i' = i + 1 /\ UNCHANGED <<result, endedIn>>
              /\ failedAt' = IF r.err THEN i ELSE failedAt
    /\ UNCHANGED <<upstream, cfg, bundles, existingBundles, visited, cur,
                   atStart, prev, extOps, runVars, ctxVars, normVars>>

\* CleanUpConfigMaps, lines 176-194, with GetBundleConfigMaps
ListOwned ==
    /\ pc = "cleanup"
    /\ \E listErr \in BOOLEAN :
         IF listErr
         THEN /\ pc' = "done" /\ result' = "err" /\ endedIn' = "reap"
              /\ faults' = faults \cup {"list"}
              /\ UNCHANGED existingBundles
         ELSE /\ existingBundles' = ExistingBundles(Owned(cluster), bundles)
              /\ pc' = "sweep"
              /\ UNCHANGED <<result, endedIn, faults>>
    /\ visited' = {}
    /\ UNCHANGED <<cluster, upstream, cfg, bundles, i, cur, calls, failedAt,
                   atStart, prev, extOps, runVars, ctxVars, normVars>>

\* CleanUpConfigMaps, lines 196-199: the range loop reaches a stale name
\* (Go ranges over a map in no fixed order)
SweepPick ==
    /\ pc = "sweep"
    /\ \E n \in Stale \ visited :
         /\ cur' = n
         /\ visited' = visited \cup {n}
    /\ pc' = "delGet"
    /\ UNCHANGED <<cluster, upstream, cfg, bundles, i, existingBundles, result,
                   calls, endedIn, failedAt, faults, atStart, prev, extOps,
                   runVars, ctxVars, normVars>>

\* CleanUpConfigMaps, lines 204-208: the range loop is over
SweepDone ==
    /\ pc = "sweep"
    /\ Stale \subseteq visited
    /\ pc' = "done"
    /\ result' = "ok"
    /\ endedIn' = "ok"
    /\ UNCHANGED <<cluster, upstream, cfg, bundles, i, existingBundles, visited,
                   cur, calls, failedAt, faults, atStart, prev, extOps, runVars, ctxVars, normVars>>

\* DeleteBundleConfigMap, lines 163-170: the Get
DeleteGet ==
    /\ pc = "delGet"
    /\ \E getErr \in BOOLEAN :
         IF getErr
         THEN /\ pc' = AfterDelete(TRUE)
              /\ faults' = faults \cup {"delget"}
         ELSE /\ pc' = IF cur \in DOMAIN cluster THEN "delDelete"
                       ELSE AfterDelete(FALSE)
              /\ UNCHANGED faults
    /\ IF pc' = "done"
       THEN result' = "err" /\ endedIn' = "reap"
       ELSE UNCHANGED <<result, endedIn>>
    /\ UNCHANGED <<cluster, upstream, cfg, bundles, i, existingBundles, visited,
                   cur, calls, failedAt, atStart, prev, extOps, runVars, ctxVars, normVars>>

\* DeleteBundleConfigMap, lines 172-173: the Delete, by name; a ConfigMap
\* that is gone by now makes it fail with not-found
DeleteDelete ==
    /\ pc = "delDelete"
    /\ \E delErr \in DeleteErrs :
         LET there == cur \in DOMAIN cluster
             ok == there /\ ~delErr
         IN
         /\ cluster' = IF ok THEN Remove(cluster, cur) ELSE cluster
         /\ calls' = calls \o
               <<Call("Delete", cur, 0, IF there THEN "found" ELSE "notfound",
                      ok, there /\ cluster[cur].labelled)>>
         /\ pc' = AfterDelete(~ok)
         /\ faults' = IF delErr THEN faults \cup {"delete"} ELSE faults
    /\ IF pc' = "done"
       THEN result' = "err" /\ endedIn' = "reap"
       ELSE UNCHANGED <<result, endedIn>>
    /\ UNCHANGED <<upstream, cfg, bundles, i, existingBundles, visited, cur,
                   failedAt, atStart, prev, extOps, runVars, ctxVars, normVars>>

\* Reconcile has returned; the next event starts the next cycle
Return ==
    /\ pc = "done"
    /\ pc' = "idle"
    /\ prev' = [ran |-> TRUE,
                converged |-> endedIn \in {"reap", "ok"},
                bundles |-> bundles,
                result |-> result]
    /\ UNCHANGED <<cluster, upstream, cfg, bundles, i, existingBundles, visited,
                   cur, result, calls, endedIn, failedAt, faults, atStart,
                   extOps, runVars, ctxVars, normVars>>

Next ==
    \/ Start
    \/ Fetch
    \/ ConvergeStep
    \/ ListOwned
    \/ SweepPick
    \/ SweepDone
    \/ DeleteGet
    \/ DeleteDelete
    \/ Return

Spec == Init /\ [][Next]_vars

(***************************************************************************)
(* Another actor on the same namespace (an administrator, another          *)
(* controller): it deletes, creates and relabels ConfigMaps while a cycle   *)
(* runs.                                                                   *)
(***************************************************************************)
InCycle == pc \notin {"idle", "done"}

\* what the other actor creates: a ConfigMap with or without the label
ExtConfigMaps ==
    {[labelled |-> l, data |-> DataOf(CAKey, "AAA")] : l \in BOOLEAN}

ExtDelete ==
    /\ extOps > 0
    /\ InCycle
    /\ \E n \in DOMAIN cluster : cluster' = Remove(cluster, n)
    /\ extOps' = extOps - 1
    /\ UNCHANGED <<upstream, cfg, pc, bundles, i, existingBundles, visited, cur,
                   result, calls, endedIn, failedAt, faults, atStart, prev,
                   runVars, ctxVars, normVars>>

ExtCreate ==
    /\ extOps > 0
    /\ InCycle
    /\ \E n \in CMNames \ DOMAIN cluster, cm \in ExtConfigMaps :
         cluster' = Put(cluster, n, cm)
    /\ extOps' = extOps - 1
    /\ UNCHANGED <<upstream, cfg, pc, bundles, i, existingBundles, visited, cur,
                   result, calls, endedIn, failedAt, faults, atStart, prev,
                   runVars, ctxVars, normVars>>

ExtRelabel ==
    /\ extOps > 0
    /\ InCycle
    /\ \E n \in DOMAIN cluster :
         cluster' = Put(cluster, n, [labelled |-> ~cluster[n].labelled,
                                     data |-> cluster[n].data])
    /\ extOps' = extOps - 1
    /\ UNCHANGED <<upstream, cfg, pc, bundles, i, existingBundles, visited, cur,
                   result, calls, endedIn, failedAt, faults, atStart, prev,
                   runVars, ctxVars, normVars>>

\* the races start from owned ConfigMaps only and a listing of at most one
\* file
OwnedClusters ==
    UNION {[S -> {[labelled |-> TRUE, data |-> DataOf(CAKey, "AAA")]}]
           : S \in SUBSET CMNames}

RaceListings == {l \in Listings : Len(l) <= 1}

InitRace ==
    /\ ReconcilerInit(OwnedClusters, RaceListings, {"url"}, MaxExtOps)
    /\ RunnerOff
    /\ NormOff

NextRace == Next \/ ExtDelete \/ ExtCreate \/ ExtRelabel

SpecRace == InitRace /\ [][NextRace]_vars

(***************************************************************************)
(* The periodic trigger: Runner.Start, its ticker, its context, eventCh    *)
(* and the channel source that receives from eventCh.                      *)
(***************************************************************************)
\* Start has created the ticker and is at its select
InitRunner ==
    /\ ReconcilerInit({<<>>}, {<<>>}, {"url"}, 0)
    /\ NormOff
    /\ rpc = "select"
    /\ tickC = FALSE
    /\ nTicks = 0
    /\ ctxDone = FALSE
    /\ chanCap \in 0..MaxChanCap
    /\ eventCh = 0
    /\ chClosed = FALSE
    /\ consumer = "recv"
    /\ delivered = 0
    /\ sentAfterCancel = FALSE

\* the ticker fires; ticker.C holds one tick, a further one is dropped
Tick ==
    /\ rpc \in {"select", "send"}
    /\ nTicks < MaxTicks
    /\ nTicks' = nTicks + 1
    /\ tickC' = TRUE
    /\ UNCHANGED <<recVars, ctxVars, normVars, rpc, ctxDone, chanCap, eventCh, chClosed, consumer,
                   delivered, sentAfterCancel>>

\* the context passed to Start is cancelled
Cancel ==
    /\ ~ctxDone
    /\ ctxDone' = TRUE
    /\ UNCHANGED <<recVars, ctxVars, normVars, rpc, tickC, nTicks, chanCap, eventCh, chClosed,
                   consumer, delivered, sentAfterCancel>>

\* Start, lines 203-205: the select takes the tick (whether or not
\* ctx.Done() is ready too) and calls genericEventChannel
SelectTick ==
    /\ rpc = "select"
    /\ tickC
    /\ tickC' = FALSE
    /\ rpc' = "send"
    /\ UNCHANGED <<recVars, ctxVars, normVars, nTicks, ctxDone, chanCap, eventCh, chClosed,
                   consumer, delivered, sentAfterCancel>>

\* Start, lines 208-209 and the deferred calls of lines 199-200: the select
\* takes ctx.Done(), Start closes eventCh, stops the ticker and returns
SelectDone ==
    /\ rpc = "select"
    /\ ctxDone
    /\ rpc' = "stopped"
    /\ chClosed' = TRUE
    /\ UNCHANGED <<recVars, ctxVars, normVars, tickC, nTicks, ctxDone, chanCap, eventCh, consumer,
                   delivered, sentAfterCancel>>

\* genericEventChannel, line 229: r.eventCh <- event goes through when the
\* buffer has room or a receiver is waiting, and blocks otherwise
Send ==
    /\ rpc = "send"
    /\ ~chClosed
    /\ IF eventCh < chanCap
       THEN eventCh' = eventCh + 1 /\ UNCHANGED delivered
       ELSE /\ consumer = "recv"
            /\ eventCh = 0
            /\ delivered' = delivered + 1
            /\ UNCHANGED eventCh
    /\ rpc' = "select"
    /\ sentAfterCancel' = (sentAfterCancel \/ ctxDone)
    /\ UNCHANGED <<recVars, ctxVars, normVars, tickC, nTicks, ctxDone, chanCap, chClosed, consumer>>

\* the channel source set up in SetupWithManager receives a buffered event
ConsumerRecv ==
    /\ consumer = "recv"
    /\ eventCh > 0
    /\ eventCh' = eventCh - 1
    /\ delivered' = delivered + 1
    /\ UNCHANGED <<recVars, ctxVars, normVars, rpc, tickC, nTicks, ctxDone, chanCap, chClosed,
                   consumer, sentAfterCancel>>

\* the channel source stops receiving once the manager's context is
\* cancelled
ConsumerStop ==
    /\ consumer = "recv"
    /\ ctxDone
    /\ consumer' = "gone"
    /\ UNCHANGED <<recVars, ctxVars, normVars, rpc, tickC, nTicks, ctxDone, chanCap, eventCh,
                   chClosed, delivered, sentAfterCancel>>

NextRunner ==
    \/ Tick
    \/ Cancel
    \/ SelectTick
    \/ SelectDone
    \/ Send
    \/ ConsumerRecv
    \/ ConsumerStop

SpecRunner == InitRunner /\ [][NextRunner]_vars

\* the Runner's goroutine keeps running while it has a step to take, and a
\* consumer that is receiving takes what is buffered
FairSpecRunner ==
    /\ InitRunner
    /\ [][NextRunner]_vars
    /\ WF_vars(SelectTick \/ SelectDone \/ Send)
    /\ WF_vars(ConsumerRecv)

(***************************************************************************)
(* Properties of one cycle on a cluster nobody else touches (Spec).        *)
(***************************************************************************)
\* the identifiers the fetched set asks for
Wanted(files) == {reName(files[k].Filename) : k \in 1..Len(files)}

DistinctIds(files) ==
    \A x, y \in 1..Len(files) :
        x # y => reName(files[x].Filename) # reName(files[y].Filename)

Writes == {k \in 1..Len(calls) : calls[k].op \in {"Create", "Update"}}
Deletes == {k \in 1..Len(calls) : calls[k].op = "Delete"}

\* C1: after a cycle whose converge loop and CleanUpConfigMaps both
\* succeeded, the names of the owned ConfigMaps are exactly the normalized
\* names of the fetched files: no orphans and no gaps.
C1_SetEquality ==
    (pc = "done" /\ endedIn = "ok") => Owned(cluster) = Wanted(bundles)

\* C2: a second converge in a row, with the same fetched set and no other
\* change to the cluster, issues no Create and no Update.  Stated for fetched
\* sets with pairwise distinct identifiers and cycles without a failed API
\* call, where nothing but the code can cause a write.
C2_SecondRunWritesNothing ==
    (/\ pc = "done" /\ endedIn = "ok" /\ faults = {}
     /\ prev.ran /\ prev.converged /\ prev.bundles = bundles
     /\ DistinctIds(bundles))
    => Writes = {}

\* C3: after a fully successful cycle with pairwise distinct identifiers,
\* each fetched record's ConfigMap holds the record's content under ca.crt
\* and no owned ConfigMap outside the fetched set is left.
C3_PayloadsAndNoStale ==
    (pc = "done" /\ endedIn = "ok" /\ DistinctIds(bundles))
    => /\ \A k \in 1..Len(bundles) :
            LET n == reName(bundles[k].Filename) IN
            /\ n \in DOMAIN cluster
            /\ CAKey \in DOMAIN cluster[n].data
            /\ cluster[n].data[CAKey] = bundles[k].Content
       /\ Owned(cluster) \subseteq Wanted(bundles)

\* C4: when the deletion of one stale ConfigMap fails with a genuine error,
\* the sweep has still attempted every other stale ConfigMap by the time
\* CleanUpConfigMaps returns the error.
C4_SweepIsBestEffort ==
    (pc = "done" /\ endedIn = "reap" /\ faults \cap {"delget", "delete"} # {})
    => Stale \subseteq visited

\* C5: when the create/update of record failedAt fails, Reconcile returns the
\* error at once: no write is issued for a later record, none is a Delete,
\* and what the earlier records wrote is still in the cluster.
C5_PartialFailureContained ==
    (pc = "done" /\ failedAt # 0)
    => /\ result = "err"
       /\ endedIn = "converge"
       /\ Deletes = {}
       /\ \A k \in Writes :
            /\ calls[k].idx <= failedAt
            /\ calls[k].ok <=> calls[k].idx < failedAt
            /\ (calls[k].ok /\ \A m \in Writes : m > k => calls[m].name # calls[k].name)
               => /\ calls[k].name \in DOMAIN cluster
                  /\ CAKey \in DOMAIN cluster[calls[k].name].data
                  /\ cluster[calls[k].name].data[CAKey] = calls[k].content

\* a cycle in which the second record's write failed after the first
\* record's write went through
C5_Witness ==
    /\ pc = "done" /\ failedAt = 2 /\ Len(bundles) >= 2
    /\ \E k \in Writes : calls[k].idx = 1 /\ calls[k].ok

\* C10: a cycle whose fetch failed returns the error and has issued no
\* Create, Update or Delete: the cluster is as it was when the cycle began.
C10_FailedFetchChangesNothing ==
    "fetch" \in faults
    => /\ pc \in {"done", "idle"}
       /\ result = "err"
       /\ calls = <<>>
       /\ cluster = atStart

\* a failed fetch with an owned ConfigMap the listing no longer names and a
\* published file that has no ConfigMap yet
C10_Witness ==
    /\ pc = "done" /\ "fetch" \in faults
    /\ Owned(cluster) \ Wanted(upstream) # {}
    /\ Wanted(upstream) \ DOMAIN cluster # {}

(***************************************************************************)
(* Properties of the sweep with another actor on the namespace (SpecRace). *)
(***************************************************************************)
\* C6: every Delete that CleanUpConfigMaps issues on a ConfigMap that is
\* there hits one that carries app=cabundle-operator at that moment.
C6_DeletesOnlyOwned ==
    \A k \in Deletes : calls[k].content = "found" => calls[k].owned

\* C7: a stale ConfigMap that is gone, at the Get or by the time of the
\* Delete, does not make the sweep fail: CleanUpConfigMaps returns an error
\* only when a List, Get or Delete failed with a genuine error.
C7_NotFoundIsSuccess ==
    (pc = "done" /\ endedIn = "reap")
    => faults \cap {"list", "delget", "delete"} # {}

(***************************************************************************)
(* Properties of the periodic trigger (SpecRunner, FairSpecRunner).        *)
(***************************************************************************)
\* C8: once the Runner's context is cancelled, no send on eventCh
\* completes any more.
C8_NoSendAfterCancel == ~sentAfterCancel

\* C9: after cancellation Runner.Start eventually stops: it has closed
\* eventCh and returned, whatever the consumer does.
C9_EventuallyStopped == ctxDone ~> (rpc = "stopped" /\ chClosed)


(***************************************************************************)
(* Properties of one cycle's control flow (Spec).                          *)
(***************************************************************************)
\* C11: when the configuration ConfigMap is there but has no bundle_url
\* key, the cycle never reaches the fetch, issues no Create, Update or
\* Delete, leaves the cluster as it found it, and (its Get having
\* succeeded) returns without error.
C11_MissingUrlIsSoftFailure ==
    cfg = "nokey" =>
        /\ pc \in {"idle", "done"}
        /\ bundles = <<>>
        /\ calls = <<>>
        /\ cluster = atStart
        /\ (pc = "done" /\ "config" \notin faults => result = "ok")

\* a cycle returned without error on a missing bundle_url although files
\* are published and the cluster holds none of them
C11_Witness ==
    /\ cfg = "nokey" /\ pc = "done" /\ result = "ok" /\ faults = {}
    /\ upstream # <<>>
    /\ Wanted(upstream) \ DOMAIN cluster # {}

\* C12: within a cycle every Create and Update comes before every Delete,
\* and CleanUpConfigMaps judges staleness by the bundles the converge loop
\* was given: no Delete is issued on a name that a fetched file
\* normalizes to, so nothing the loop created or updated in the cycle is
\* deleted in it.
C12_ReapSparesWhatConvergeWrote ==
    /\ \A d \in Deletes : calls[d].name \notin Wanted(bundles)
    /\ \A d \in Deletes : \A w \in Writes :
           w < d /\ calls[w].name # calls[d].name

\* a cycle both created a ConfigMap and deleted a stale one
C12_Witness ==
    /\ pc = "done" /\ endedIn = "ok"
    /\ \E w \in Writes : calls[w].op = "Create" /\ calls[w].ok
    /\ \E d \in Deletes : calls[d].ok

\* C13: in a cycle without failures over files with distinct normalized
\* names, a ConfigMap that held a ca.crt payload different from its fetched
\* file's content is changed by Update and by nothing else: afterwards its
\* ca.crt payload is the fetched content, and the cycle issued an Update
\* and no Create and no Delete on its name.
C13_UpdateInPlace ==
    (pc = "done" /\ endedIn = "ok" /\ faults = {} /\ DistinctIds(bundles)) =>
        \A k \in 1..Len(bundles) :
            LET n == reName(bundles[k].Filename) IN
            (/\ n \in DOMAIN atStart
             /\ CAKey \in DOMAIN atStart[n].data
             /\ atStart[n].data[CAKey] # bundles[k].Content)
            => /\ n \in DOMAIN cluster
               /\ cluster[n].data[CAKey] = bundles[k].Content
               /\ \E c \in 1..Len(calls) :
                      calls[c].name = n /\ calls[c].op = "Update"
               /\ \A c \in 1..Len(calls) :
                      calls[c].name = n => calls[c].op = "Update"

\* C14: a cycle that ends without error right after a cycle that failed
\* leaves the cluster converged on what it fetched (files with distinct
\* normalized names): the owned names are exactly the normalized file
\* names, and every owned ConfigMap's ca.crt payload is its file's content.
C14_SelfHealing ==
    (/\ pc = "done" /\ endedIn = "ok"
     /\ prev.ran /\ prev.result = "err"
     /\ DistinctIds(bundles)) =>
        /\ Owned(cluster) = Wanted(bundles)
        /\ \A k \in 1..Len(bundles) :
               LET n == reName(bundles[k].Filename) IN
               /\ n \in DOMAIN cluster
               /\ CAKey \in DOMAIN cluster[n].data
               /\ cluster[n].data[CAKey] = bundles[k].Content

NameParts ==
    {<<"a">>, <<"B">>, <<"7">>, <<" ">>, <<".">>, <<"_">>, DotPem, DotCrt}

RECURSIVE Flatten(_)
Flatten(parts) ==
    IF parts = <<>> THEN <<>> ELSE Head(parts) \o Flatten(Tail(parts))

Names ==
    {Flatten(ps) : ps \in UNION {[1..n -> NameParts] : n \in 0..MaxNameParts}}

InitNames ==
    /\ ReconcilerInit({<<>>}, {<<>>}, {"url"}, 0)
    /\ RunnerOff
    /\ nmIn \in Names
    /\ nmOut = <<>>
    /\ nmDone = FALSE

\* a call of reName
Normalize ==
    /\ ~nmDone
    /\ nmOut' = reName(nmIn)
    /\ nmDone' = TRUE
    /\ UNCHANGED <<recVars, runVars, ctxVars, nmIn>>

NextNames == Normalize

SpecNames == InitNames /\ [][NextNames]_vars

\* The normalizer as the specification words it: one of the two suffixes
\* is trimmed, every run of characters outside [a-zA-Z0-9] becomes a single
\* "-", and the result is lowercased.
TrimOneSuffix(s) ==
    IF HasSuffix(s, DotPem) THEN TrimSuffix(s, DotPem)
    ELSE TrimSuffix(s, DotCrt)

RECURSIVE CollapseRuns(_, _)
\* inRun: the character before s was outside the class
CollapseRuns(s, inRun) ==
    IF s = <<>> THEN <<>>
    ELSE IF IsAlnum(Head(s)) THEN <<Head(s)>> \o CollapseRuns(Tail(s), FALSE)
    ELSE IF inRun THEN CollapseRuns(Tail(s), TRUE)
    ELSE <<"-">> \o CollapseRuns(Tail(s), TRUE)

RefNormalize(s) == ToLower(CollapseRuns(TrimOneSuffix(s), FALSE))

\* C16: for every file name, reName gives what the normalizer of the
\* specification gives: one suffix trimmed, every run of characters
\* outside [a-zA-Z0-9] replaced by a single "-", lowercased.
C16_MatchesReference == nmDone => nmOut = RefNormalize(nmIn)

(***************************************************************************)
(* Cancellation of the context passed to Reconcile (SpecCancel).           *)
(***************************************************************************)
\* the manager cancels the ctx of the Reconcile that is running
CancelReconcile ==
    /\ InCycle
    /\ ~recCancelled
    /\ recCancelled' = TRUE
    /\ UNCHANGED <<recVars, runVars, fetchAfterCancel, normVars>>

InitCancel ==
    /\ ReconcilerInit(OwnedClusters, RaceListings, {"url"}, 0)
    /\ RunnerOff
    /\ NormOff

NextCancel == Next \/ CancelReconcile

SpecCancel == InitCancel /\ [][NextCancel]_vars

\* C17: a fetch that is in flight when the ctx passed to Reconcile is
\* cancelled ends with an error: the cycle is over with that error, has no
\* bundles, and has issued no call on the cluster.
C17_CancelAbortsFetch ==
    fetchAfterCancel =>
        /\ "fetch" \in faults
        /\ pc \in {"done", "idle"} /\ result = "err"
        /\ bundles = <<>> /\ calls = <<>>

\* C18: when two fetched files normalize to the same name, the converge
\* loop does not fail on that account, and after a cycle that ended
\* without error the ConfigMap of that name is there and its ca.crt
\* payload is the content of the file that comes last in the fetched
\* sequence.
C18_LastWriteWins ==
    \A y \in 1..Len(bundles) :
        LET n == reName(bundles[y].Filename) IN
        (/\ pc = "done"
         /\ \E x \in 1..(y - 1) : reName(bundles[x].Filename) = n
         /\ \A z \in (y + 1)..Len(bundles) : reName(bundles[z].Filename) # n)
        => /\ faults = {} => endedIn = "ok"
           /\ endedIn = "ok" =>
                  /\ n \in DOMAIN cluster
                  /\ CAKey \in DOMAIN cluster[n].data
                  /\ cluster[n].data[CAKey] = bundles[y].Content

\* C19: a cycle changes nothing of a ConfigMap it found but Data[ca.crt]:
\* the ownership label is as it was and so is every other Data key. A
\* ConfigMap found without the label stays, stays without it, is not in
\* the map CleanUpConfigMaps sweeps and gets no Delete.
C19_UpdateFrame ==
    /\ \A n \in DOMAIN atStart \cap DOMAIN cluster :
           /\ cluster[n].labelled = atStart[n].labelled
           /\ DOMAIN cluster[n].data \ {CAKey} = DOMAIN atStart[n].data \ {CAKey}
           /\ \A key \in DOMAIN atStart[n].data \ {CAKey} :
                  cluster[n].data[key] = atStart[n].data[key]
    /\ \A n \in DOMAIN atStart :
           ~atStart[n].labelled =>
               /\ n \in DOMAIN cluster
               /\ n \notin Owned(cluster)
               /\ n \notin DOMAIN existingBundles
               /\ \A d \in Deletes : calls[d].name # n

\* a cycle overwrote ca.crt of a ConfigMap that has no label and holds
\* another key, and the sweep ran
C19_Witness ==
    /\ pc = "done" /\ endedIn = "ok"
    /\ \E w \in Writes :
           /\ calls[w].op = "Update" /\ calls[w].ok /\ ~calls[w].owned
           /\ APem \in DOMAIN cluster[calls[w].name].data
           /\ APem \in DOMAIN atStart[calls[w].name].data
           /\ atStart[calls[w].name].data # cluster[calls[w].name].data
           /\ cluster[calls[w].name].data[CAKey] = calls[w].content

\* C20: CleanUpConfigMaps is entered only when the converge loop has gone
\* through every fetched record without a failed create/update. In a cycle
\* where a create/update failed, the fetch failed or bundle_url is missing,
\* CleanUpConfigMaps is not entered, no Delete is issued, and every
\* ConfigMap that was owned at the start of the cycle is still owned.
C20_ReapOnlyAfterConverge ==
    /\ pc \in {"cleanup", "sweep", "delGet", "delDelete"} =>
           failedAt = 0 /\ i = Len(bundles) + 1
    /\ (failedAt # 0 \/ "fetch" \in faults \/ cfg = "nokey") =>
           /\ pc \notin {"cleanup", "sweep", "delGet", "delDelete"}
           /\ existingBundles = <<>>
           /\ Deletes = {}
           /\ Owned(atStart) \subseteq Owned(cluster)

\* a create/update failed after an earlier record was written, and a stale
\* owned ConfigMap is still there when the cycle has returned
C20_Witness ==
    /\ pc = "done" /\ failedAt = 2
    /\ Owned(cluster) \ Wanted(bundles) # {}

=============================================================================
